---- MODULE Spec2Model ----
(***************************************************************************)
(* A model of the Google News scraper: the time-window helpers, the        *)
(* per-card field extractors, the redirect resolver, the search loop, the  *)
(* post-filter and the command-line run that ties them together.           *)
(*                                                                         *)
(* Text is modelled as a sequence of symbols.  A symbol is one character,  *)
(* except for three atomic prefixes that stand for the character runs      *)
(* "http://", "https://" and "https://news.google.com".                    *)
(***************************************************************************)
EXTENDS Integers, Sequences, FiniteSets, TLC

VARIABLES
    mode,       \* which entry point this behaviour exercises
    pc,         \* position inside the entry point
    input,      \* arguments of a directly called helper
    output,     \* value returned by a directly called helper
    cfg,        \* relative_time configuration: hours, days, years
    now,        \* the clock reading taken by parse_since_from_relative_config
    page,       \* the <article> cards of the fetched page, in document order
    maxItems,   \* max_items passed to search
    decode,     \* GoogleNewsScraper.decode_articles
    whenParam,  \* main: when_param
    sinceDt,    \* main: since_dt
    idx,        \* search: position of the card being examined
    rawUrl,     \* search: raw_url of the card being examined
    headResp,   \* _resolve_redirect: response of the HEAD request
    articles,   \* search: the list being built; main: the list being exported
    net,        \* log of the requests issued so far
    filterRan,  \* main: filter_articles_by_published_at was called
    outFile,    \* content of the output file, Nothing while it does not exist
    exitStatus, \* process exit status, Nothing while the process runs
    origin      \* history: for each element of articles, the card it came from

vars == << mode, pc, input, output, cfg, now, page, maxItems, decode, whenParam,
           sinceDt, idx, rawUrl, headResp, articles, net, filterRan, outFile,
           exitStatus, origin >>

runVars == << cfg, now, page, maxItems, decode, whenParam, sinceDt, idx, rawUrl,
              headResp, articles, net, filterRan, outFile, exitStatus, origin >>

----------------------------------------------------------------------------
(* Bounds of the model.                                                    *)

MaxHref == 4
MaxImgs == 3
MaxCards == 3
MaxItemsArg == 2
MaxN == 2
MaxArts == 3

----------------------------------------------------------------------------
(* Values.                                                                 *)

\* An optional value is a sequence of length at most one: Nothing is Python's
\* None (or a missing attribute), Some(x) is the value x.
Nothing == <<>>
Some(x) == << x >>
IsSome(o) == Len(o) = 1
Val(o) == o[1]

GOOGLE_NEWS_BASE == "https://news.google.com"
HTTP == "http://"
HTTPS == "https://"

Chars == {".", "/", "a"}

\* All sequences over S of length at most n.
SeqsUpTo(S, n) == UNION {[1..k -> S] : k \in 0..n}

\* Python truthiness of an optional text: None and "" are falsy.
TruthyText(o) == IsSome(o) /\ Val(o) # <<>>

----------------------------------------------------------------------------
(* Text helpers: str.startswith, str.lstrip, str.split, str.join.          *)

StartsWith(s, p) ==
    /\ Len(s) >= Len(p)
    /\ SubSeq(s, 1, Len(p)) = p

\* s.lstrip(chars): drop leading symbols for as long as they belong to chars.
RECURSIVE LStrip(_, _)
LStrip(s, chars) ==
    IF s # <<>> /\ Head(s) \in chars THEN LStrip(Tail(s), chars) ELSE s

\* s.split("/"): the segments between slashes; always at least one segment.
RECURSIVE SplitSlash(_)
SplitSlash(s) ==
    IF \A k \in 1..Len(s) : s[k] # "/"
    THEN << s >>
    ELSE LET k == CHOOSE j \in 1..Len(s) :
                      s[j] = "/" /\ \A m \in 1..(j - 1) : s[m] # "/"
         IN << SubSeq(s, 1, k - 1) >> \o SplitSlash(SubSeq(s, k + 1, Len(s)))

\* "/".join(segs)
RECURSIVE JoinSlash(_)
JoinSlash(segs) ==
    IF segs = <<>> THEN <<>>
    ELSE IF Len(segs) = 1 THEN segs[1]
    ELSE segs[1] \o << "/" >> \o JoinSlash(Tail(segs))

NonEmptySeg(seg) == seg # <<>>

\* urljoin's removal of "." and ".." segments.
RECURSIVE ResolveSegments(_, _)
ResolveSegments(segments, resolved) ==
    IF segments = <<>> THEN resolved
    ELSE LET seg == Head(segments) IN
         IF seg = << ".", "." >>
         THEN ResolveSegments(Tail(segments),
                              IF resolved = <<>> THEN <<>>
                              ELSE SubSeq(resolved, 1, Len(resolved) - 1))
         ELSE IF seg = << "." >>
         THEN ResolveSegments(Tail(segments), resolved)
         ELSE ResolveSegments(Tail(segments), Append(resolved, seg))

\* urllib.parse.urljoin(GOOGLE_NEWS_BASE, url) for a url that is a bare path
\* (no scheme, query or fragment): the base has an empty path.
UrlJoinBase(url) ==
    IF url = <<>> THEN << GOOGLE_NEWS_BASE >>
    ELSE LET parts == SplitSlash(url)
             segments ==
                 IF Head(url) = "/" THEN parts
                 ELSE LET all == << <<>> >> \o parts
                      IN << all[1] >>
                         \o SelectSeq(SubSeq(all, 2, Len(all) - 1), NonEmptySeg)
                         \o << all[Len(all)] >>
             last == segments[Len(segments)]
             res0 == ResolveSegments(segments, <<>>)
             res1 == IF last \in { << "." >>, << ".", "." >> }
                     THEN Append(res0, <<>>) ELSE res0
             joined == JoinSlash(res1)
             path0 == IF joined = <<>> THEN << "/" >> ELSE joined
             path == IF Head(path0) # "/" THEN << "/" >> \o path0 ELSE path0
         IN << GOOGLE_NEWS_BASE >> \o path

----------------------------------------------------------------------------
(* Field extractors.  A card is a record                                   *)
(*   anchors : the <a> elements, each with its optional href and text,     *)
(*   imgs    : the <img> elements, each with optional width, height, src   *)
(*             and dsrc (data-src),                                        *)
(*   time    : the optional <time> element.                                *)

HasHref(a) == IsSome(a.href)

\* article.find("a", href=True): the first anchor that carries an href
\* attribute, whatever its value.
FindAnchorWithHref(card) ==
    LET withHref == SelectSeq(card.anchors, HasHref)
    IN IF withHref = <<>> THEN Nothing ELSE Some(Head(withHref))

_extract_raw_article_url(card) ==
    LET link == FindAnchorWithHref(card) IN
    IF ~IsSome(link) THEN Nothing
    ELSE LET href == Val(Val(link).href) IN
         IF StartsWith(href, << ".", "/" >>) \/ StartsWith(href, << "/" >>)
         THEN Some(UrlJoinBase(LStrip(href, {".", "/"})))
         ELSE IF StartsWith(href, << HTTP >>) \/ StartsWith(href, << HTTPS >>)
         THEN Some(href)
         ELSE Some(UrlJoinBase(href))

_extract_title(card) ==
    IF card.anchors = <<>> THEN <<>> ELSE Head(card.anchors).text

\* Python's `a or b` on two optional texts.
OrText(a, b) == IF TruthyText(a) THEN a ELSE b

_extract_image(card) ==
    IF card.imgs = <<>> THEN Nothing
    ELSE OrText(Head(card.imgs).src, Head(card.imgs).dsrc)

\* int(text) for a text of digits with an optional sign: Nothing stands for
\* the ValueError raised on any other text.
Digits == << "0", "1", "2", "3", "4", "5", "6", "7", "8", "9" >>
IsDigit(c) == \E d \in 1..Len(Digits) : Digits[d] = c
DigitVal(c) == (CHOOSE d \in 1..Len(Digits) : Digits[d] = c) - 1

RECURSIVE DigitsValue(_, _)
DigitsValue(s, acc) ==
    IF s = <<>> THEN acc
    ELSE DigitsValue(Tail(s), Len(Digits) * acc + DigitVal(Head(s)))

ParseInt(s) ==
    LET body == IF s # <<>> /\ Head(s) \in {"-", "+"} THEN Tail(s) ELSE s
        neg == s # <<>> /\ Head(s) = "-"
    IN IF body = <<>> \/ \E k \in 1..Len(body) : ~IsDigit(body[k])
       THEN Nothing
       ELSE Some(IF neg THEN 0 - DigitsValue(body, 0) ELSE DigitsValue(body, 0))

\* int(img.get(attr)): a missing attribute raises TypeError, a text that is
\* no integer raises ValueError; both are caught alike.
IntAttr(a) == IF IsSome(a) THEN ParseInt(Val(a)) ELSE Nothing

\* The loop of _extract_source_icon with `<=` in place of `<`.
RECURSIVE IconScan_LastOnTie(_, _, _, _)
IconScan_LastOnTie(imgs, k, sm, area) ==
    IF k > Len(imgs) THEN sm
    ELSE LET w == IntAttr(imgs[k].width)
             h == IntAttr(imgs[k].height)
         IN IF ~IsSome(w) \/ ~IsSome(h)
            THEN IconScan_LastOnTie(imgs, k + 1, sm, area)
            ELSE IF ~IsSome(sm) \/ Val(w) * Val(h) <= area
            THEN IconScan_LastOnTie(imgs, k + 1, Some(imgs[k]), Val(w) * Val(h))
            ELSE IconScan_LastOnTie(imgs, k + 1, sm, area)

\* The loop of _extract_source_icon over imgs[k..]: sm is `smallest` (an
\* optional image) and area is `smallest_area`.
RECURSIVE IconScan(_, _, _, _)
IconScan(imgs, k, sm, area) ==
    IF k > Len(imgs) THEN sm
    ELSE LET w == IntAttr(imgs[k].width)
             h == IntAttr(imgs[k].height)
         IN IF ~IsSome(w) \/ ~IsSome(h)
            THEN IconScan(imgs, k + 1, sm, area)
            ELSE IF ~IsSome(sm) \/ Val(w) * Val(h) < area
            THEN IconScan(imgs, k + 1, Some(imgs[k]), Val(w) * Val(h))
            ELSE IconScan(imgs, k + 1, sm, area)

_extract_source_icon(card) ==
    IF card.imgs = <<>> THEN Nothing
    ELSE LET smallest == IconScan(card.imgs, 1, Nothing, 0)
         IN IF ~IsSome(smallest) THEN Nothing
            ELSE OrText(Val(smallest).src, Val(smallest).dsrc)

----------------------------------------------------------------------------
(* Time-window helpers.  A relative_time configuration maps hours, days    *)
(* and years to an optional integer (cfg.get gives None for a missing      *)
(* key).  An instant is a datetime record: wall is the wall-clock reading  *)
(* in seconds and tz the optional UTC offset in seconds (Nothing for a     *)
(* naive datetime).                                                        *)

SecondsPerHour == 3600
SecondsPerDay == 86400
DaysPerYear == 365

\* str(n) for an integer n.
RECURSIVE FormatNat(_)
FormatNat(n) ==
    IF n < Len(Digits) THEN << Digits[n + 1] >>
    ELSE FormatNat(n \div Len(Digits)) \o << Digits[(n % Len(Digits)) + 1] >>

FormatInt(n) == IF n < 0 THEN << "-" >> \o FormatNat(0 - n) ELSE FormatNat(n)

\* build_time_range with `>= 0` in place of `> 0`.
build_time_range_NonNegative(hours, days, years) ==
    IF IsSome(hours) /\ Val(hours) >= 0 THEN Some(FormatInt(Val(hours)) \o << "h" >>)
    ELSE IF IsSome(days) /\ Val(days) >= 0 THEN Some(FormatInt(Val(days)) \o << "d" >>)
    ELSE IF IsSome(years) /\ Val(years) >= 0 THEN Some(FormatInt(Val(years)) \o << "y" >>)
    ELSE Nothing

build_time_range(hours, days, years) ==
    IF IsSome(hours) /\ Val(hours) > 0 THEN Some(FormatInt(Val(hours)) \o << "h" >>)
    ELSE IF IsSome(days) /\ Val(days) > 0 THEN Some(FormatInt(Val(days)) \o << "d" >>)
    ELSE IF IsSome(years) /\ Val(years) > 0 THEN Some(FormatInt(Val(years)) \o << "y" >>)
    ELSE Nothing

\* Python truthiness of an optional integer: None and 0 are falsy.
TruthyInt(o) == IsSome(o) /\ Val(o) # 0

UtcDatetime(t) == [wall |-> t, tz |-> Some(0)]

\* clock is the reading of datetime.utcnow() taken on entry.
parse_since_from_relative_config(c, clock) ==
    IF TruthyInt(c.hours)
    THEN Some(UtcDatetime(clock - Val(c.hours) * SecondsPerHour))
    ELSE IF TruthyInt(c.days)
    THEN Some(UtcDatetime(clock - Val(c.days) * SecondsPerDay))
    ELSE IF TruthyInt(c.years)
    THEN Some(UtcDatetime(clock - (Val(c.years) * DaysPerYear) * SecondsPerDay))
    ELSE Nothing

\* datetime.astimezone(timezone.utc) followed by a read of the instant, for
\* an aware datetime.
UtcInstant(d) == d.wall - Val(d.tz)

----------------------------------------------------------------------------
(* Post-filter.  A publishedAt text is a record: fmt says what the text    *)
(* holds ("empty" for "", "junk" for a text that is no date, "naive" for a *)
(* date-time without offset, "aware" for one with an offset), wall is the  *)
(* wall-clock reading it spells and off the offset it spells, in seconds.  *)

PubText(fmt, wall, off) == [fmt |-> fmt, wall |-> wall, off |-> off]
EmptyPub == PubText("empty", 0, 0)
JunkPub == PubText("junk", 0, 0)

\* `not published_raw`
FalsyPub(o) == ~IsSome(o) \/ Val(o).fmt = "empty"

\* dateutil's parser.parse(text): Nothing stands for the exception it raises
\* on a text that is no date.
ParseDate(p) ==
    IF p.fmt \in {"junk", "empty"} THEN Nothing
    ELSE Some([wall |-> p.wall, tz |-> IF p.fmt = "aware" THEN Some(p.off) ELSE Nothing])

\* The body of the try block: parse, then bring the result to UTC.
ParseToUtc(p) ==
    LET parsed == ParseDate(p) IN
    IF ~IsSome(parsed) THEN Nothing
    ELSE IF ~IsSome(Val(parsed).tz)
         THEN Some([wall |-> Val(parsed).wall, tz |-> Some(0)])
         ELSE Some(UtcDatetime(UtcInstant(Val(parsed))))

\* The except branch missing: the parse failure leaves the function.
OnParseFailure_Raise == "raise"

\* The except branch: what becomes of a record whose publishedAt failed to
\* parse.
OnParseFailure == "keep"

\* `>` in place of `>=`.
NotBefore_Strict(parsedUtc, sinceUtc) == UtcInstant(parsedUtc) > UtcInstant(sinceUtc)

\* parsed_dt >= since_utc
NotBefore(parsedUtc, sinceUtc) == UtcInstant(parsedUtc) >= UtcInstant(sinceUtc)

\* One iteration of the loop: "keep" appends the record, "drop" does not,
\* "raise" lets an exception leave the function.
FilterStep(art, sinceUtc) ==
    IF FalsyPub(art.publishedAt) THEN "keep"
    ELSE LET parsedUtc == ParseToUtc(Val(art.publishedAt)) IN
         IF ~IsSome(parsedUtc) THEN OnParseFailure
         ELSE IF NotBefore(Val(parsedUtc), sinceUtc) THEN "keep" ELSE "drop"

RECURSIVE FilterLoop(_, _, _)
FilterLoop(arts, sinceUtc, filtered) ==
    IF arts = <<>> THEN [raised |-> FALSE, list |-> filtered]
    ELSE LET step == FilterStep(Head(arts), sinceUtc) IN
         IF step = "raise" THEN [raised |-> TRUE, list |-> <<>>]
         ELSE FilterLoop(Tail(arts), sinceUtc,
                         IF step = "keep" THEN Append(filtered, Head(arts)) ELSE filtered)

filter_articles_by_published_at(arts, since) ==
    FilterLoop(arts, UtcDatetime(UtcInstant(since)), <<>>)

----------------------------------------------------------------------------
(* The remaining pieces of search.  The source and author fields of a      *)
(* record are not modelled: nothing else reads them.                       *)

\* needle in text
Contains(text, needle) ==
    \E k \in 1..(Len(text) - Len(needle) + 1) :
        SubSeq(text, k, k + Len(needle) - 1) = needle

\* build_search_url: the q parameter of the search URL (hl, gl and ceid are
\* fixed for a scraper and left out).
build_search_url(query, when) ==
    IF TruthyText(when) /\ ~Contains(query, << "when:" >> \o Val(when))
    THEN query \o << " ", "when:" >> \o Val(when)
    ELSE query

\* The <time> element is a record of its optional datetime attribute and its
\* text, both publishedAt texts.
_extract_published_at(card) ==
    IF ~IsSome(card.time) THEN Nothing
    ELSE LET tag == Val(card.time) IN
         IF ~FalsyPub(tag.datetime) THEN tag.datetime
         ELSE IF tag.text.fmt = "empty" THEN Nothing
         ELSE LET dt == ParseDate(tag.text) IN
              IF ~IsSome(dt) THEN Some(tag.text)
              ELSE IF IsSome(Val(dt).tz)
                   THEN Some(PubText("aware", Val(dt).wall, Val(Val(dt).tz)))
                   ELSE Some(PubText("naive", Val(dt).wall, 0))

Article(search, raw, decoded, title, pub, image, icon) ==
    [googleNewsUrl |-> search, articleUrl |-> raw, decodedArticleUrl |-> decoded,
     title |-> title, publishedAt |-> pub, imageUrl |-> image, sourceIconUrl |-> icon]

\* The GoogleNewsArticle built for a card, as the dictionary search returns.
BuildItem(searchUrl, card, raw, decoded) ==
    Article(searchUrl, raw, decoded, _extract_title(card),
            _extract_published_at(card), _extract_image(card),
            _extract_source_icon(card))

\* `if not raw_url`
SkipsCard(raw) == ~TruthyText(raw)

\* `len(articles) >= max_items`
LimitReached(n, limit) == n >= limit

\* resp.raise_for_status(): HTTP statuses from 400 on raise.
ErrorStatus == 400
\* The call of raise_for_status left out.
RaisesForStatus_Never(status) == FALSE

RaisesForStatus(status) == status >= ErrorStatus

\* The except clause missing: the exception leaves _resolve_redirect.
OnResolveFailure_Propagate == [raised |-> TRUE, url |-> Nothing]

\* The except clause of _resolve_redirect: what the call returns when a
\* request raised.
OnResolveFailure == [raised |-> FALSE, url |-> Nothing]

----------------------------------------------------------------------------
(* Direct calls of _extract_raw_article_url.                               *)

PathTexts(n) == SeqsUpTo(Chars, n)

Hrefs ==
    PathTexts(MaxHref)
    \cup { << s >> \o t : s \in {HTTP, HTTPS}, t \in PathTexts(MaxHref - 1) }

Anchor(h) == [href |-> h, text |-> << "a" >>]
NoHrefAnchor == Anchor(Nothing)

\* Cards for the URL extractor: an optional anchor without href, then one
\* anchor with an href; or no anchor with an href at all.
UrlCards ==
    { [anchors |-> pre \o << Anchor(Some(h)) >>, imgs |-> <<>>, time |-> Nothing] :
          pre \in { <<>>, << NoHrefAnchor >> }, h \in Hrefs }
    \cup { [anchors |-> pre, imgs |-> <<>>, time |-> Nothing] :
          pre \in { <<>>, << NoHrefAnchor >> } }

NoCfg == [hours |-> Nothing, days |-> Nothing, years |-> Nothing]

IdleRun ==
    /\ cfg = NoCfg /\ now = 0 /\ page = <<>> /\ maxItems = 0 /\ decode = FALSE
    /\ whenParam = Nothing /\ sinceDt = Nothing /\ idx = 0 /\ rawUrl = Nothing
    /\ headResp = Nothing /\ articles = <<>> /\ net = <<>> /\ filterRan = FALSE
    /\ outFile = Nothing /\ exitStatus = Nothing /\ origin = <<>>

InitUrl ==
    /\ mode = "url" /\ pc = "call"
    /\ input \in UrlCards
    /\ output = Nothing
    /\ IdleRun

CallExtractRawUrl ==
    /\ mode = "url" /\ pc = "call"
    /\ output' = _extract_raw_article_url(input)
    /\ pc' = "returned"
    /\ UNCHANGED << mode, input >>
    /\ UNCHANGED runVars

NextUrl == CallExtractRawUrl

SpecUrl == InitUrl /\ [][NextUrl]_vars

----------------------------------------------------------------------------
(* Direct calls of _extract_source_icon.                                   *)

Img(w, h, src, dsrc) == [width |-> w, height |-> h, src |-> src, dsrc |-> dsrc]

ImgPool ==
    { Img(Some(<< "1", "0" >>), Some(<< "1", "0" >>), Some(<< "a" >>), Nothing),
      Img(Some(<< "1" >>), Some(<< "2" >>), Some(<< "b" >>), Nothing),
      Img(Some(<< "2" >>), Some(<< "1" >>), Nothing, Some(<< "c" >>)),
      Img(Nothing, Some(<< "1" >>), Some(<< "d" >>), Nothing),
      Img(Some(<< "x" >>), Some(<< "1" >>), Some(<< "e" >>), Nothing),
      Img(Some(<< "-", "1" >>), Some(<< "2" >>), Some(<< "f" >>), Nothing),
      Img(Some(<< "1" >>), Some(<< "1" >>), Nothing, Nothing) }

IconCards ==
    { [anchors |-> <<>>, imgs |-> l, time |-> Nothing] : l \in SeqsUpTo(ImgPool, MaxImgs) }

InitIcon ==
    /\ mode = "icon" /\ pc = "call"
    /\ input \in IconCards
    /\ output = Nothing
    /\ IdleRun

CallExtractSourceIcon ==
    /\ mode = "icon" /\ pc = "call"
    /\ output' = _extract_source_icon(input)
    /\ pc' = "returned"
    /\ UNCHANGED << mode, input >>
    /\ UNCHANGED runVars

NextIcon == CallExtractSourceIcon

SpecIcon == InitIcon /\ [][NextIcon]_vars

----------------------------------------------------------------------------
(* The start of main: when_param and since_dt are computed from the        *)
(* relative_time configuration before anything is fetched.                 *)

OptInts(n) == { Nothing } \cup { Some(k) : k \in (0 - n)..n }

TimeCfgs == [hours : OptInts(MaxN), days : OptInts(MaxN), years : OptInts(MaxN)]

Clock == {0, 1}

MainBuildTimeRange ==
    /\ pc = "build_time_range"
    /\ whenParam' = build_time_range(cfg.hours, cfg.days, cfg.years)
    /\ pc' = "parse_since"
    /\ UNCHANGED << mode, input, output, cfg, now, page, maxItems, decode, sinceDt,
                    idx, rawUrl, headResp, articles, net, filterRan, outFile,
                    exitStatus, origin >>

MainParseSince ==
    /\ pc = "parse_since"
    /\ sinceDt' = parse_since_from_relative_config(cfg, now)
    /\ pc' = "search"
    /\ UNCHANGED << mode, input, output, cfg, now, page, maxItems, decode, whenParam,
                    idx, rawUrl, headResp, articles, net, filterRan, outFile,
                    exitStatus, origin >>

InitTime ==
    /\ mode = "time" /\ pc = "build_time_range"
    /\ input = Nothing /\ output = Nothing
    /\ cfg \in TimeCfgs
    /\ now \in Clock
    /\ page = <<>> /\ maxItems = 0 /\ decode = FALSE
    /\ whenParam = Nothing /\ sinceDt = Nothing /\ idx = 0 /\ rawUrl = Nothing
    /\ headResp = Nothing /\ articles = <<>> /\ net = <<>> /\ filterRan = FALSE
    /\ outFile = Nothing /\ exitStatus = Nothing /\ origin = <<>>

NextTime == MainBuildTimeRange \/ MainParseSince

SpecTime == InitTime /\ [][NextTime]_vars

----------------------------------------------------------------------------
(* Direct calls of filter_articles_by_published_at.                        *)

\* The publishedAt values tried: absent, empty, not a date, and date-times
\* around the instant 0, naive or with an offset of one hour either way.
PubPool ==
    { Nothing, Some(EmptyPub), Some(JunkPub),
      Some(PubText("naive", -1, 0)),
      Some(PubText("naive", 0, 0)),
      Some(PubText("aware", SecondsPerHour - 1, SecondsPerHour)),
      Some(PubText("aware", 0 - SecondsPerHour, 0 - SecondsPerHour)) }

FilterArticles ==
    { Article(<< "q" >>, << GOOGLE_NEWS_BASE, "/", "a" >>, Nothing, << "a" >>, p,
              Nothing, Nothing) : p \in PubPool }

\* Cutoffs at the instants 0 and 1, the first also spelt with an offset.
FilterSinces ==
    { UtcDatetime(0), UtcDatetime(1), [wall |-> SecondsPerHour, tz |-> Some(SecondsPerHour)] }

InitFilter ==
    /\ mode = "filter" /\ pc = "call"
    /\ input \in [arts : SeqsUpTo(FilterArticles, MaxArts), since : FilterSinces]
    /\ output = Nothing
    /\ IdleRun

CallFilter ==
    /\ mode = "filter" /\ pc = "call"
    /\ output' = filter_articles_by_published_at(input.arts, input.since)
    /\ pc' = "returned"
    /\ UNCHANGED << mode, input >>
    /\ UNCHANGED runVars

NextFilter == CallFilter

SpecFilter == InitFilter /\ [][NextFilter]_vars

----------------------------------------------------------------------------
(* GoogleNewsScraper.search, one step per request or loop iteration.       *)

Query == << "q" >>

FinalUrl == << HTTPS, "f" >>

\* What a request can come to: an exception (timeout, DNS, connection), or a
\* response.  redir is `resp.is_redirect or resp.history`; a response that
\* followed redirects carries the final URL, any other the requested one.
Raised == [raised |-> TRUE, redir |-> FALSE, status |-> 0, url |-> <<>>]
Response(redir, status, url) ==
    [raised |-> FALSE, redir |-> redir, status |-> status, url |-> url]

PageStatuses == {200, 404, 503}
ResolveStatuses == {200, 405}

PageOutcomes == { Raised } \cup { Response(FALSE, st, <<>>) : st \in PageStatuses }

ResolveOutcomes(url) ==
    { Raised }
    \cup { Response(TRUE, st, FinalUrl) : st \in ResolveStatuses }
    \cup { Response(FALSE, st, url) : st \in ResolveStatuses }

\* An entry of the request log: the kind of request ("page", "head" or
\* "get"), the card it was made for (0 for the page) and how it ended.
Request(kind, card, r) ==
    [req |-> kind, card |-> card, raised |-> r.raised, status |-> r.status,
     redir |-> r.redir, url |-> r.url]

\* _get: the page request; an exception or an error status leaves search.
SearchFetch ==
    /\ pc = "search"
    /\ \E r \in PageOutcomes :
         /\ net' = Append(net, Request("page", 0, r))
         /\ IF r.raised \/ RaisesForStatus(r.status)
            THEN pc' = "search_raised" /\ UNCHANGED << idx, articles, origin >>
            ELSE pc' = "loop" /\ idx' = 1 /\ articles' = <<>> /\ origin' = <<>>
    /\ UNCHANGED << mode, input, output, cfg, now, page, maxItems, decode, whenParam,
                    sinceDt, rawUrl, headResp, filterRan, outFile, exitStatus >>

\* Lines 268-282: build the item, append it, and leave the loop when the
\* limit is reached.
AppendItem(raw, decoded) ==
    /\ articles' = Append(articles,
                          BuildItem(build_search_url(Query, whenParam), page[idx],
                                    Val(raw), decoded))
    /\ origin' = Append(origin, idx)
    /\ IF LimitReached(Len(articles) + 1, maxItems)
       THEN pc' = "search_return" /\ UNCHANGED idx
       ELSE pc' = "loop" /\ idx' = idx + 1

\* The for loop has no card left.
LoopExhausted ==
    /\ pc = "loop"
    /\ idx > Len(page)
    /\ pc' = "search_return"
    /\ UNCHANGED << mode, input, output, cfg, now, page, maxItems, decode, whenParam,
                    sinceDt, idx, rawUrl, headResp, articles, net, filterRan, outFile,
                    exitStatus, origin >>

\* `if not raw_url: continue`
LoopSkipCard ==
    /\ pc = "loop"
    /\ idx <= Len(page)
    /\ SkipsCard(_extract_raw_article_url(page[idx]))
    /\ idx' = idx + 1
    /\ UNCHANGED << mode, pc, input, output, cfg, now, page, maxItems, decode,
                    whenParam, sinceDt, rawUrl, headResp, articles, net, filterRan,
                    outFile, exitStatus, origin >>

\* A card with a raw URL, decode_articles off.
LoopNoDecode ==
    /\ pc = "loop"
    /\ idx <= Len(page)
    /\ ~SkipsCard(_extract_raw_article_url(page[idx]))
    /\ ~decode
    /\ AppendItem(_extract_raw_article_url(page[idx]), Nothing)
    /\ UNCHANGED << mode, input, output, cfg, now, page, maxItems, decode, whenParam,
                    sinceDt, rawUrl, headResp, net, filterRan, outFile, exitStatus >>

\* A card with a raw URL, decode_articles on: _resolve_redirect is entered.
LoopBeginResolve ==
    /\ pc = "loop"
    /\ idx <= Len(page)
    /\ ~SkipsCard(_extract_raw_article_url(page[idx]))
    /\ decode
    /\ rawUrl' = _extract_raw_article_url(page[idx])
    /\ pc' = "head"
    /\ UNCHANGED << mode, input, output, cfg, now, page, maxItems, decode, whenParam,
                    sinceDt, idx, headResp, articles, net, filterRan, outFile,
                    exitStatus, origin >>

\* _resolve_redirect has returned (or raised) for the card at idx.
ResolveDone(result) ==
    IF result.raised
    THEN pc' = "search_raised" /\ UNCHANGED << idx, articles, origin >>
    ELSE AppendItem(rawUrl, result.url)

\* A GET after every HEAD response that shows no redirect.
FallsBackToGet_Always(r) == TRUE

\* `if resp.status_code >= 400`, reached when the HEAD response shows no
\* redirect: the GET is made.
FallsBackToGet(r) == r.status >= ErrorStatus

\* The HEAD request of _resolve_redirect and what follows from its response.
ResolveHead ==
    /\ pc = "head"
    /\ \E r \in ResolveOutcomes(Val(rawUrl)) :
         /\ net' = Append(net, Request("head", idx, r))
         /\ IF r.raised
            THEN ResolveDone(OnResolveFailure) /\ UNCHANGED headResp
            ELSE IF r.redir
            THEN ResolveDone([raised |-> FALSE, url |-> Some(r.url)])
                 /\ UNCHANGED headResp
            ELSE IF FallsBackToGet(r)
            THEN /\ pc' = "get"
                 /\ headResp' = Some(r)
                 /\ UNCHANGED << idx, articles, origin >>
            ELSE ResolveDone([raised |-> FALSE, url |-> Some(r.url)])
                 /\ UNCHANGED headResp
    /\ UNCHANGED << mode, input, output, cfg, now, page, maxItems, decode, whenParam,
                    sinceDt, rawUrl, filterRan, outFile, exitStatus >>

\* The GET request that follows a HEAD answered with an error status.
ResolveGet ==
    /\ pc = "get"
    /\ \E r \in ResolveOutcomes(Val(rawUrl)) :
         /\ net' = Append(net, Request("get", idx, r))
         /\ IF r.raised
            THEN ResolveDone(OnResolveFailure)
            ELSE ResolveDone([raised |-> FALSE, url |-> Some(r.url)])
    /\ headResp' = Nothing
    /\ UNCHANGED << mode, input, output, cfg, now, page, maxItems, decode, whenParam,
                    sinceDt, rawUrl, filterRan, outFile, exitStatus >>

SearchStep ==
    \/ SearchFetch
    \/ LoopExhausted
    \/ LoopSkipCard
    \/ LoopNoDecode
    \/ LoopBeginResolve
    \/ ResolveHead
    \/ ResolveGet

\* Cards of a page: without hyperlink, with a hyperlink that has no href,
\* with an empty href, with a relative href after a hyperlink without href,
\* and with an absolute href.
TimeTag(datetime, text) == Some([datetime |-> datetime, text |-> text])

Card(anchors, imgs, time) == [anchors |-> anchors, imgs |-> imgs, time |-> time]

BareCard == Card(<<>>, <<>>, Nothing)
NoHrefCard == Card(<< NoHrefAnchor >>, <<>>, Nothing)
EmptyHrefCard == Card(<< Anchor(Some(<<>>)) >>, <<>>, Nothing)
RelativeCard ==
    Card(<< NoHrefAnchor, Anchor(Some(<< ".", "/", "a" >>)) >>,
         << Img(Some(<< "1" >>), Some(<< "2" >>), Some(<< "b" >>), Nothing) >>,
         TimeTag(Some(PubText("naive", 0 - SecondsPerHour - 1, 0)), EmptyPub))
AbsoluteCard ==
    Card(<< Anchor(Some(<< HTTPS, "a" >>)) >>, <<>>, TimeTag(Nothing, JunkPub))

SearchCards == { BareCard, NoHrefCard, EmptyHrefCard, RelativeCard, AbsoluteCard }

InitSearch ==
    /\ mode = "search" /\ pc = "search"
    /\ input = Nothing /\ output = Nothing
    /\ cfg = NoCfg /\ now = 0
    /\ page \in SeqsUpTo(SearchCards, MaxCards)
    /\ maxItems \in 0..MaxItemsArg
    /\ decode \in BOOLEAN
    /\ whenParam \in { Nothing, Some(<< "1", "h" >>) }
    /\ sinceDt = Nothing /\ idx = 0 /\ rawUrl = Nothing /\ headResp = Nothing
    /\ articles = <<>> /\ net = <<>> /\ filterRan = FALSE
    /\ outFile = Nothing /\ exitStatus = Nothing /\ origin = <<>>

SpecSearch == InitSearch /\ [][SearchStep]_vars

----------------------------------------------------------------------------
(* main: the whole run, from the merged configuration to the exit status.  *)

DefaultMaxItems == 50

\* merge_cli_with_settings: `args.max_items or settings.get("max_items") or 50`
MergeMaxItems(arg, setting) ==
    IF TruthyInt(arg) THEN Val(arg)
    ELSE IF TruthyInt(setting) THEN Val(setting)
    ELSE DefaultMaxItems

\* The except clause around scraper.search: log, then sys.exit(1).
MainSearchFailed ==
    /\ pc = "search_raised"
    /\ exitStatus' = Some(1)
    /\ pc' = "exited"
    /\ UNCHANGED << mode, input, output, cfg, now, page, maxItems, decode, whenParam,
                    sinceDt, idx, rawUrl, headResp, articles, net, filterRan, outFile,
                    origin >>

\* `if since_dt is not None`: the post-filter replaces the list.  An
\* exception leaving the filter is caught by nothing and ends the process.
MainFilter ==
    /\ pc = "search_return"
    /\ IsSome(sinceDt)
    /\ LET r == filter_articles_by_published_at(articles, Val(sinceDt)) IN
         IF r.raised
         THEN /\ exitStatus' = Some(1) /\ pc' = "exited"
              /\ UNCHANGED articles
         ELSE /\ articles' = r.list /\ pc' = "export"
              /\ UNCHANGED exitStatus
    /\ filterRan' = TRUE
    /\ UNCHANGED << mode, input, output, cfg, now, page, maxItems, decode, whenParam,
                    sinceDt, idx, rawUrl, headResp, net, outFile, origin >>

MainSkipFilter ==
    /\ pc = "search_return"
    /\ ~IsSome(sinceDt)
    /\ pc' = "export"
    /\ UNCHANGED << mode, input, output, cfg, now, page, maxItems, decode, whenParam,
                    sinceDt, idx, rawUrl, headResp, articles, net, filterRan, outFile,
                    exitStatus, origin >>

\* export_to_json inside main's try: it succeeds and main returns, or it
\* fails before the file is opened, or while the file is being written.
ExportOutcomes == { "ok", "failed_before_open", "failed_in_write" }

MainExport ==
    /\ pc = "export"
    /\ \E o \in ExportOutcomes :
         /\ outFile' = IF o = "ok" THEN Some([complete |-> TRUE, data |-> articles])
                       ELSE IF o = "failed_in_write"
                       THEN Some([complete |-> FALSE, data |-> <<>>])
                       ELSE outFile
         /\ exitStatus' = IF o = "ok" THEN Some(0) ELSE Some(1)
    /\ pc' = "exited"
    /\ UNCHANGED << mode, input, output, cfg, now, page, maxItems, decode, whenParam,
                    sinceDt, idx, rawUrl, headResp, articles, net, filterRan, origin >>

RecentCard ==
    Card(<< Anchor(Some(<< HTTP, "a" >>)) >>, <<>>,
         TimeTag(Some(PubText("aware", 0, 0)), EmptyPub))

MainCards == { BareCard, RelativeCard, RecentCard }

MainCfgs ==
    { c \in TimeCfgs : /\ c.hours \in { Nothing, Some(1) }
                       /\ c.days = Nothing /\ c.years = Nothing }

\* --max-items absent, 0 (both give the default) or 1.
MaxItemsArgs == { Nothing, Some(0), Some(1) }

Init ==
    /\ mode = "main" /\ pc = "build_time_range"
    /\ input = Nothing /\ output = Nothing
    /\ cfg \in MainCfgs
    /\ now = 0
    /\ page \in SeqsUpTo(MainCards, MaxCards)
    /\ maxItems \in { MergeMaxItems(a, Nothing) : a \in MaxItemsArgs }
    /\ decode \in BOOLEAN
    /\ whenParam = Nothing /\ sinceDt = Nothing /\ idx = 0 /\ rawUrl = Nothing
    /\ headResp = Nothing /\ articles = <<>> /\ net = <<>> /\ filterRan = FALSE
    /\ outFile = Nothing /\ exitStatus = Nothing /\ origin = <<>>

Next ==
    \/ MainBuildTimeRange
    \/ MainParseSince
    \/ SearchStep
    \/ MainSearchFailed
    \/ MainFilter
    \/ MainSkipFilter
    \/ MainExport

Spec == Init /\ [][Next]_vars

----------------------------------------------------------------------------
(* Properties.                                                             *)

Min(a, b) == IF a <= b THEN a ELSE b

\* The elements of s at the positions in S, in order.
RECURSIVE Pick(_, _, _)
Pick(s, S, k) ==
    IF k > Len(s) THEN <<>>
    ELSE (IF k \in S THEN << s[k] >> ELSE <<>>) \o Pick(s, S, k + 1)

\* The positions of the cards of the page that yield a raw URL, in order.
YieldsRawUrl(k) == TruthyText(_extract_raw_article_url(page[k]))
YieldingCards == Pick([k \in 1..Len(page) |-> k],
                      { k \in 1..Len(page) : YieldsRawUrl(k) }, 1)

\* C1: when search returns, its records are those of the first
\* min(maxItems, V) cards that yield a raw URL, in document order (V being the
\* number of such cards), for every maxItems including 0; the list never
\* holds more than maxItems records, and the loop has not gone past the card
\* that completed the list.
C1_SearchReturnsFirstMinRecords ==
    pc = "search_return" =>
        /\ origin = SubSeq(YieldingCards, 1, Min(maxItems, Len(YieldingCards)))
        /\ Len(articles) <= maxItems
        /\ Len(articles) = Len(origin)
        /\ (Len(articles) = maxItems /\ maxItems > 0 => idx = origin[Len(origin)])

\* The card holds a hyperlink with a non-empty href.
HasNonEmptyHref(card) ==
    \E k \in 1..Len(card.anchors) : TruthyText(card.anchors[k].href)

\* C2: every record has a non-empty articleUrl and comes from a card that
\* holds a hyperlink with a non-empty href; a card without one (no hyperlink,
\* hyperlinks without href, only an empty href) gives no record.
C2_RecordsNeedNonEmptyHref ==
    \A j \in 1..Len(origin) :
        /\ articles[j].articleUrl # <<>>
        /\ HasNonEmptyHref(page[origin[j]])

\* The first of hours, days, years that is present and strictly positive:
\* its position (0 when there is none), its value and its unit.
TimeArgs == << cfg.hours, cfg.days, cfg.years >>
TimeUnits == << "h", "d", "y" >>
PositiveArgs == { k \in 1..3 : IsSome(TimeArgs[k]) /\ Val(TimeArgs[k]) > 0 }
FirstPositive ==
    IF PositiveArgs = {} THEN 0
    ELSE CHOOSE k \in PositiveArgs : \A j \in PositiveArgs : k <= j

UnitSeconds == << SecondsPerHour, SecondsPerDay, DaysPerYear * SecondsPerDay >>

\* C4: parse_since_from_relative_config selects the unit and value that
\* build_time_range selects: the cutoff is now minus N hours, N days or
\* N * 365 days for the first strictly positive value, never later than now,
\* and absent exactly when no value is strictly positive, so that a cutoff
\* exists if and only if a window token does.
C4_CutoffAgreesWithWindow ==
    pc = "search" =>
        /\ IsSome(sinceDt) <=> IsSome(whenParam)
        /\ IF FirstPositive = 0 THEN sinceDt = Nothing
           ELSE /\ IsSome(sinceDt)
                /\ UtcInstant(Val(sinceDt))
                      = now - Val(TimeArgs[FirstPositive]) * UnitSeconds[FirstPositive]
                /\ UtcInstant(Val(sinceDt)) <= now

\* The records whose publishedAt is absent, empty or no date, and the others.
FailsOpen(a) ==
    \/ ~IsSome(a.publishedAt)
    \/ Val(a.publishedAt).fmt \in {"empty", "junk"}
IsDated(a) == ~FailsOpen(a)

\* C5: filter_articles_by_published_at fails open: whatever the cutoff, the
\* records whose publishedAt is absent, empty or unparseable are all kept, no
\* exception leaves the filter, and the dated records fare as they would
\* without the others in the list.
C5_FilterFailsOpen ==
    mode = "filter" /\ pc = "returned" =>
        /\ ~output.raised
        /\ SelectSeq(output.list, FailsOpen) = SelectSeq(input.arts, FailsOpen)
        /\ SelectSeq(output.list, IsDated)
              = filter_articles_by_published_at(SelectSeq(input.arts, IsDated),
                                                input.since).list

\* A list with an unparseable record between a dated record that is dropped
\* and one that is kept has been filtered, and the unparseable record is in
\* the output.
C5_Witness ==
    /\ mode = "filter" /\ pc = "returned"
    /\ Len(input.arts) = 3
    /\ IsDated(input.arts[1]) /\ IsDated(input.arts[3])
    /\ input.arts[2].publishedAt = Some(JunkPub)
    /\ ~output.raised
    /\ output.list = << input.arts[2], input.arts[3] >>

\* The instant a dated publishedAt spells, read as UTC when it has no offset.
SpeltInstant(a) ==
    IF Val(a.publishedAt).fmt = "aware"
    THEN Val(a.publishedAt).wall - Val(a.publishedAt).off
    ELSE Val(a.publishedAt).wall

\* C6: the output of filter_articles_by_published_at is a subsequence of the
\* input (the same records, in the same order) that holds a dated record if
\* and only if its instant is at or after the cutoff.
C6_FilterKeepsFromCutoffInOrder ==
    mode = "filter" /\ pc = "returned" =>
        \E S \in SUBSET (1..Len(input.arts)) :
            /\ output.list = Pick(input.arts, S, 1)
            /\ \A k \in 1..Len(input.arts) :
                   IsDated(input.arts[k]) =>
                       (k \in S <=> SpeltInstant(input.arts[k])
                                      >= input.since.wall - Val(input.since.tz))

\* A record one second before the cutoff and one exactly at it: only the
\* second is in the output.
C6_Witness ==
    /\ mode = "filter" /\ pc = "returned"
    /\ input.since = UtcDatetime(0)
    /\ Len(input.arts) = 2
    /\ input.arts[1].publishedAt = Some(PubText("naive", -1, 0))
    /\ input.arts[2].publishedAt = Some(PubText("naive", 0, 0))
    /\ output.list = << input.arts[2] >>

\* The page request was made and failed: it raised, or was answered with an
\* HTTP error status.
FetchFailed ==
    \E k \in 1..Len(net) :
        net[k].req = "page" /\ (net[k].raised \/ net[k].status >= 400)
FetchSucceeded ==
    \E k \in 1..Len(net) :
        net[k].req = "page" /\ ~net[k].raised /\ net[k].status < 400
ResolveRequests == { k \in 1..Len(net) : net[k].req \in {"head", "get"} }

\* C7: once the page request has failed, no redirect resolution is issued,
\* nothing is filtered or exported, the output file is not written, and the
\* process ends with a non-zero exit status; the exit status is zero only
\* after the fetch succeeded and the output file was written in full.
C7_FetchFailureIsFatal ==
    /\ FetchFailed =>
          /\ ResolveRequests = {}
          /\ articles = <<>>
          /\ ~filterRan
          /\ outFile = Nothing
          /\ pc \in {"search_raised", "exited"}
          /\ (mode = "main" /\ pc = "search_raised" => ENABLED MainSearchFailed)
          /\ (pc = "exited" => IsSome(exitStatus) /\ Val(exitStatus) # 0)
    /\ exitStatus = Some(0) =>
          /\ FetchSucceeded
          /\ outFile = Some([complete |-> TRUE, data |-> articles])

\* A run whose page request was answered with an error status has exited
\* with status 1, having written nothing.
C7_Witness ==
    /\ mode = "main" /\ pc = "exited"
    /\ Len(net) = 1 /\ ~net[1].raised /\ net[1].status >= 400
    /\ page # <<>> /\ decode
    /\ exitStatus = Some(1) /\ outFile = Nothing

\* The requests of redirect resolution that raised.
FailedResolves == { k \in ResolveRequests : net[k].raised }

\* C8: a request that fails during redirect resolution never makes search
\* fail: the record of that card is produced with resolvedArticleUrl absent
\* and its other fields filled from the card, and the loop goes on: a search
\* that returns below the limit has a record for every card with a raw URL.
C8_ResolveFailureIsLocal ==
    /\ pc = "search_raised" => ResolveRequests = {}
    /\ \A k \in FailedResolves :
          \E j \in 1..Len(articles) :
              /\ origin[j] = net[k].card
              /\ articles[j]
                    = BuildItem(build_search_url(Query, whenParam), page[net[k].card],
                                Val(_extract_raw_article_url(page[net[k].card])),
                                Nothing)
    /\ (pc = "search_return" /\ Len(articles) < maxItems =>
           origin = YieldingCards)

\* Both requests of the first card's resolution failed, and search returned
\* a record for that card and one for a later card.
C8_Witness ==
    /\ mode = "search" /\ pc = "search_return"
    /\ Len(net) >= 4
    /\ net[2].req = "head" /\ ~net[2].raised
    /\ net[3].req = "get" /\ net[3].raised
    /\ Len(articles) = 2
    /\ articles[1].decodedArticleUrl = Nothing
    /\ articles[1].articleUrl # <<>>
    /\ articles[2].decodedArticleUrl = Some(FinalUrl)

\* The href _extract_raw_article_url reads from the card it was given.
GivenHref == Val(Val(FindAnchorWithHref(input)).href)

\* The base origin followed by a path; the bare origin for the empty path.
Rooted(path) ==
    IF path = <<>> THEN Some(<< GOOGLE_NEWS_BASE >>)
    ELSE Some(<< GOOGLE_NEWS_BASE, "/" >> \o path)

\* C9: for an href that starts with "./" or "/", _extract_raw_article_url
\* returns the base origin followed by the href with only that leading
\* prefix removed, the rest kept character for character; an href that
\* starts with "http://" or "https://" is returned unchanged.
C9_RelativeHrefKeepsItsPath ==
    mode = "url" /\ pc = "returned" /\ IsSome(FindAnchorWithHref(input)) =>
        /\ StartsWith(GivenHref, << ".", "/" >>) =>
               output = Rooted(SubSeq(GivenHref, 3, Len(GivenHref)))
        /\ StartsWith(GivenHref, << "/" >>) =>
               output = Rooted(SubSeq(GivenHref, 2, Len(GivenHref)))
        /\ StartsWith(GivenHref, << HTTP >>) \/ StartsWith(GivenHref, << HTTPS >>) =>
               output = Some(GivenHref)

\* The images of the given card whose width and height both parse.
Sized(img) == IsSome(IntAttr(img.width)) /\ IsSome(IntAttr(img.height))
AreaOf(img) == Val(IntAttr(img.width)) * Val(IntAttr(img.height))
SizedImgs == { k \in 1..Len(input.imgs) : Sized(input.imgs[k]) }

\* C10: _extract_source_icon returns the src (or else the data-src) of the
\* image of smallest width * height among those whose width and height both
\* parse as integers, the first of them in document order on a tie, and
\* nothing when no image qualifies; the other images have no influence.
C10_IconIsFirstSmallestSized ==
    mode = "icon" /\ pc = "returned" =>
        /\ IF SizedImgs = {} THEN output = Nothing
           ELSE LET best == CHOOSE k \in SizedImgs :
                                \A j \in SizedImgs :
                                    \/ AreaOf(input.imgs[k]) < AreaOf(input.imgs[j])
                                    \/ /\ AreaOf(input.imgs[k]) = AreaOf(input.imgs[j])
                                       /\ k <= j
                IN output = OrText(input.imgs[best].src, input.imgs[best].dsrc)
        /\ output = _extract_source_icon([input EXCEPT !.imgs = SelectSeq(input.imgs, Sized)])

\* An image without width, then two sized images of equal area, the second
\* of which has only a data-src: the first sized image's src is returned.
C10_Witness ==
    /\ mode = "icon" /\ pc = "returned"
    /\ Len(input.imgs) = 3
    /\ ~Sized(input.imgs[1])
    /\ Sized(input.imgs[2]) /\ Sized(input.imgs[3])
    /\ AreaOf(input.imgs[2]) = AreaOf(input.imgs[3])
    /\ input.imgs[2].src # input.imgs[3].dsrc
    /\ IsSome(input.imgs[2].src) /\ ~IsSome(input.imgs[3].src)
    /\ output = input.imgs[2].src

\* The cards for which _resolve_redirect was called, and the log entries of
\* one kind made for a card.
ResolvedCards == { net[k].card : k \in ResolveRequests }
EntriesOf(kind, card) ==
    { k \in 1..Len(net) : net[k].req = kind /\ net[k].card = card }

\* The log entry is a HEAD response that shows no redirect and an error
\* status.
HeadRejected(e) == e.req = "head" /\ ~e.raised /\ ~e.redir /\ e.status >= 400

\* The call for the card has returned: its record is in the list.
ResolveReturned(card) == \E j \in 1..Len(origin) : origin[j] = card
ReturnedUrl(card) ==
    articles[CHOOSE j \in 1..Len(origin) : origin[j] = card].decodedArticleUrl

\* One HEAD per call, and a GET only right after the HEAD of the same call,
\* when that HEAD was answered without redirect and with an error status; a
\* call that has returned after such a HEAD has made the GET.
OneHeadThenAtMostOneGet ==
    \A k \in 1..Len(net) :
        /\ net[k].req = "head" =>
               \A l \in 1..(k - 1) :
                   net[l].req = "head" => net[l].card # net[k].card
        /\ net[k].req = "get" =>
               /\ k > 1
               /\ HeadRejected(net[k - 1])
               /\ net[k - 1].card = net[k].card
        /\ HeadRejected(net[k]) /\ ResolveReturned(net[k].card) =>
               /\ k < Len(net)
               /\ net[k + 1].req = "get"
               /\ net[k + 1].card = net[k].card

\* C11 as stated: each call of _resolve_redirect issues exactly one HEAD and
\* then at most one GET, the GET only when the HEAD response shows no
\* redirect and has a status of 400 or more, and whenever the HEAD response
\* is such the value returned is the terminal URL of the GET.
C11_RejectedHeadReturnsGetUrl ==
    /\ OneHeadThenAtMostOneGet
    /\ \A k \in 1..Len(net) :
          HeadRejected(net[k]) /\ ResolveReturned(net[k].card) =>
              ReturnedUrl(net[k].card) = Some(net[k + 1].url)

\* C11 as amended: each call of _resolve_redirect issues exactly one HEAD and
\* then at most one GET, the GET only when the HEAD response shows no
\* redirect and has a status of 400 or more, and whenever the HEAD response
\* is such the value returned is the terminal URL of the GET if the GET was
\* answered, and absent if the GET raised.
C11_RejectedHeadReturnsGetUrlOrAbsent ==
    /\ OneHeadThenAtMostOneGet
    /\ \A k \in 1..Len(net) :
          HeadRejected(net[k]) /\ ResolveReturned(net[k].card) =>
              ReturnedUrl(net[k].card) = IF net[k + 1].raised THEN Nothing
                                         ELSE Some(net[k + 1].url)

\* A HEAD answered 405 without redirect was followed by a GET that followed
\* redirects, and the call returned the GET's final URL; the next card's HEAD
\* was answered 200 and no GET was made for it.
C11_Witness ==
    /\ mode = "search" /\ pc = "search_return"
    /\ Len(net) = 4
    /\ net[2].req = "head" /\ net[2].status = 405 /\ ~net[2].redir
    /\ net[3].req = "get" /\ net[3].card = net[2].card /\ net[3].redir
    /\ net[4].req = "head" /\ net[4].status = 200 /\ ~net[4].redir /\ ~net[4].raised
    /\ Len(articles) = 2
    /\ articles[1].decodedArticleUrl = Some(FinalUrl)
    /\ articles[2].decodedArticleUrl = Some(articles[2].articleUrl)

\* The page requests, and the cards that have a record.
PageRequests == { k \in 1..Len(net) : net[k].req = "page" }
RecordedCards == { origin[j] : j \in 1..Len(origin) }

\* C12: within one search call the page is fetched exactly once and before
\* any redirect resolution; with resolution enabled the resolutions are made
\* one after the other, exactly one per card that yields a raw URL and
\* becomes a record, none for a skipped card and none once maxItems records
\* are collected, so that they are as many as the records and at most
\* maxItems; with resolution disabled no resolution request is made and every
\* record has resolvedArticleUrl absent.
C12_OneFetchThenOneResolvePerRecord ==
    /\ Cardinality(PageRequests) <= 1
    /\ (net # <<>> => net[1].req = "page")
    /\ (pc \in {"loop", "head", "get", "search_return", "search_raised"} =>
           Cardinality(PageRequests) = 1)
    /\ decode =>
          /\ \A c \in ResolvedCards :
                 /\ Cardinality(EntriesOf("head", c)) = 1
                 /\ c \in 1..Len(page) /\ YieldsRawUrl(c)
          /\ \A k, l \in ResolveRequests : k < l => net[k].card <= net[l].card
          /\ RecordedCards \subseteq ResolvedCards
          /\ (pc = "get" => ResolvedCards = RecordedCards \cup {idx})
          /\ (pc \in {"loop", "search_return"} =>
                 /\ ResolvedCards = RecordedCards
                 /\ Cardinality(ResolvedCards) = Len(articles))
          /\ Cardinality(ResolvedCards) <= maxItems
          /\ Len(articles) <= maxItems
    /\ ~decode =>
          /\ ResolveRequests = {}
          /\ \A j \in 1..Len(articles) : articles[j].decodedArticleUrl = Nothing

====
